---- MODULE Spec2Model ----
(***************************************************************************)
(* A model of mathjax3-ts/input/tex/TreeHelper.ts: the helper layer that   *)
(* assembles MathML tree nodes (createNode), classifies metadata           *)
(* (setProperties), repairs scripted nodes with a missing slot             *)
(* (cleanSubSup) and resolves operator forms (getForm).                    *)
(*                                                                         *)
(* The heap of node objects is one record of sequences indexed by node id  *)
(* (1, 2, ...): a node's kind, its childNodes array, its parent            *)
(* back-reference, the id of the Attributes object it holds (objects are   *)
(* shared by reference, so two nodes may hold the same one), its typed     *)
(* properties, its texClass field, the payload of a text node and the      *)
(* candidate forms of an mo node.  amap holds the Attributes objects.      *)
(***************************************************************************)
EXTENDS Integers, Sequences, FiniteSets, TLC

VARIABLES heap,     \* the node objects and the Attributes objects
          optable,  \* MmlMo.OPTABLE: form -> (text -> operator definition)
          root,     \* the node the caller holds as the tree (0: none yet)
          call,     \* the call that produced this state, with its arguments and result
          pre       \* the heap as it was when that call was made

vars == <<heap, optable, root, call, pre>>

-----------------------------------------------------------------------------
(* Values of the source language *)

\* undefined / null / a hole of a sparse array: every falsy child reference
Absent == 0

\* a null field (texClass before it is set, getForm's "no match")
Null == "null"

\* the Infinity arity of kinds that take any number of children
Infinity == 1000000

\* const attrs: the names stored as typed properties
attrs == {"autoOP", "fnOP", "movesupsub", "subsupOK", "texprimestyle",
          "useHeight", "variantForm", "withDelims", "open", "close"}

-----------------------------------------------------------------------------
(* String-keyed maps (a PropertyList, an Attributes object): functions     *)
(* whose domain is the set of keys that are set.                           *)

\* LET x == v IN Op(x), with v evaluated once however often Op uses x
With(v, Op(_)) == CHOOSE out \in {Op(x) : x \in {v}} : TRUE

EmptyMap == [k \in {} |-> Null]

MapSet(m, k, v) == [x \in (DOMAIN m) \cup {k} |-> IF x = k THEN v ELSE m[x]]

MapGet(m, k) == IF k \in DOMAIN m THEN m[k] ELSE Null

\* Object.keys(m): the keys of m, in one fixed order
RECURSIVE KeysOf(_)
KeysOf(S) ==
  IF S = {} THEN <<>>
  ELSE LET k == CHOOSE x \in S : TRUE IN <<k>> \o KeysOf(S \ {k})

\* a map as the list of its <<name, value>> entries
Entries(m) == LET ks == KeysOf(DOMAIN m) IN [i \in 1..Len(ks) |-> <<ks[i], m[ks[i]]>>]

-----------------------------------------------------------------------------
(* The Tree API the helpers call (MmlNode, MmlFactory) *)

EmptyHeap ==
  [kind |-> <<>>, childNodes |-> <<>>, parent |-> <<>>, attributes |-> <<>>,
   properties |-> <<>>, texClass |-> <<>>, text |-> <<>>, forms |-> <<>>,
   amap |-> <<>>]

Nodes(h) == 1..Len(h.kind)

\* node.arity, by kind
Arity(kind) ==
  CASE kind \in {"msubsup", "munderover"} -> 3
    [] kind \in {"msub", "msup", "munder", "mover", "mfrac"} -> 2
    [] kind = "text" -> 0
    [] kind = "mstyle" -> -1
    [] OTHER -> Infinity

\* the order in which an mo node offers its forms unless the tree says otherwise
DefaultForms == <<"infix", "prefix", "postfix">>

\* factory.create(kind, {}, []): a fresh node with no children, no parent,
\* an Attributes object of its own, no properties and no texClass
FactoryCreate(h, kind) ==
  [h EXCEPT !.kind = Append(@, kind),
            !.childNodes = Append(@, <<>>),
            !.parent = Append(@, Absent),
            !.attributes = Append(@, Len(h.amap) + 1),
            !.properties = Append(@, EmptyMap),
            !.texClass = Append(@, Null),
            !.text = Append(@, <<>>),
            !.forms = Append(@, IF kind = "mo" THEN DefaultForms ELSE <<>>),
            !.amap = Append(@, EmptyMap)]

\* the id of the node FactoryCreate has just added to h
Newest(h) == Len(h.kind)

\* node.appendChild(child): push the child and set its parent back-reference
AppendChild(h, node, child) ==
  [h EXCEPT !.childNodes[node] = Append(@, child),
            !.parent[child] = node]

RECURSIVE AppendAll(_, _, _)
AppendAll(h, node, children) ==
  IF children = <<>> THEN h
  ELSE With(AppendChild(h, node, Head(children)),
            LAMBDA h1 : AppendAll(h1, node, Tail(children)))

\* node.setChildren(children): empty the array, then append each child
SetChildren(h, node, children) ==
  AppendAll([h EXCEPT !.childNodes[node] = <<>>], node, children)

\* node.childIndex(child): the first slot holding the child (0: none)
ChildIndex(h, node, child) ==
  LET hits == {i \in 1..Len(h.childNodes[node]) : h.childNodes[node][i] = child}
  IN IF hits = {} THEN 0 ELSE CHOOSE i \in hits : \A j \in hits : i <= j

\* parent.replaceChild(newChild, oldChild)
ReplaceChild(h, parent, newChild, oldChild) ==
  LET i == ChildIndex(h, parent, oldChild)
  IN IF i = 0 THEN h
     ELSE [h EXCEPT !.childNodes[parent][i] = newChild,
                    !.parent[newChild] = parent]

\* node.isInferred
IsInferred(h, node) == h.kind[node] = "inferredMrow"

\* node.walkTree(func): the nodes in the order func sees them (the node, then
\* the walk of each child that is there, left to right)
RECURSIVE WalkTree(_, _)
RECURSIVE WalkAll(_, _)
WalkTree(h, node) == <<node>> \o WalkAll(h, h.childNodes[node])
WalkAll(h, children) ==
  IF children = <<>> THEN <<>>
  ELSE (IF Head(children) = Absent THEN <<>> ELSE WalkTree(h, Head(children)))
       \o WalkAll(h, Tail(children))

\* the entries of an array
Range(s) == {s[i] : i \in 1..Len(s)}

\* the nodes a walk from the nodes of S comes to, S included
RECURSIVE Under(_, _, _)
Under(h, S, k) ==
  IF k = 0 THEN S
  ELSE Under(h, S \cup {c \in Nodes(h) : \E p \in S : c \in Range(h.childNodes[p])}, k - 1)

\* mo.getText(): the payloads of the node's text children, concatenated
RECURSIVE TextOf(_, _)
TextOf(h, children) ==
  IF children = <<>> THEN <<>>
  ELSE (IF Head(children) # Absent /\ h.kind[Head(children)] = "text"
        THEN h.text[Head(children)] ELSE <<>>)
       \o TextOf(h, Tail(children))

-----------------------------------------------------------------------------
(* TreeHelper *)

GetChildren(h, node) == h.childNodes[node]

IsType(h, node, kind) == h.kind[node] = kind

\* children[i] of a JavaScript array, i counted from 0: Absent past the end
ChildAt(children, i) == IF i + 1 <= Len(children) THEN children[i + 1] ELSE Absent

GetChildAt(h, node, position) == ChildAt(h.childNodes[node], position)

\* node.attributes.set(attribute, value), on the object the node holds
SetAttribute(h, node, attribute, value) ==
  [h EXCEPT !.amap[h.attributes[node]] = MapSet(@, attribute, value)]

GetAttribute(h, node, attr) == MapGet(h.amap[h.attributes[node]], attr)

GetProperty(h, node, property) == MapGet(h.properties[node], property)

\* setProperties as it would be with the test of the node's kind left out:
\* movablelimits is mirrored into the generic attributes of every node
SetOnePropertyMirrorAlways(h, node, name, value) ==
  IF name = "texClass" THEN [h EXCEPT !.texClass[node] = value]
  ELSE IF name = "movablelimits" THEN
    With([h EXCEPT !.properties[node] = MapSet(@, "movablelimits", value)],
         LAMBDA h1 : SetAttribute(h1, node, "movablelimits", value))
  ELSE IF name = "inferred" THEN h
  ELSE IF name \in attrs THEN [h EXCEPT !.properties[node] = MapSet(@, name, value)]
  ELSE SetAttribute(h, node, name, value)

\* one round of the loop of setProperties: the key name with its value
SetOneProperty(h, node, name, value) ==
  IF name = "texClass" THEN [h EXCEPT !.texClass[node] = value]
  ELSE IF name = "movablelimits" THEN
    With([h EXCEPT !.properties[node] = MapSet(@, "movablelimits", value)],
         LAMBDA h1 : IF IsType(h1, node, "mo") \/ IsType(h1, node, "mstyle")
                     THEN SetAttribute(h1, node, "movablelimits", value)
                     ELSE h1)
  ELSE IF name = "inferred" THEN h
  ELSE IF name \in attrs THEN [h EXCEPT !.properties[node] = MapSet(@, name, value)]
  ELSE SetAttribute(h, node, name, value)

\* setProperties(node, properties); properties is the list of the bag's
\* <<name, value>> entries in the order Object.keys gives them
RECURSIVE SetProperties(_, _, _)
SetProperties(h, node, properties) ==
  IF properties = <<>> THEN h
  ELSE With(SetOneProperty(h, node, Head(properties)[1], Head(properties)[2]),
            LAMBDA h1 : SetProperties(h1, node, Tail(properties)))

\* copyAttributes(oldNode, newNode): newNode takes oldNode's Attributes
\* object itself, then oldNode's properties are classified onto newNode
CopyAttributes(h, oldNode, newNode) ==
  SetProperties([h EXCEPT !.attributes[newNode] = h.attributes[oldNode]],
                newNode, Entries(h.properties[oldNode]))

\* the loop as it would be if it unwrapped an inferred child the way the
\* variadic branch does: the inferred node's children take its place
RECURSIVE CleanChildrenUnwrapped(_, _, _, _)
CleanChildrenUnwrapped(h, children, i, cleanChildren) ==
  IF i > Len(children) \/ children[i] = Absent
  THEN [heap |-> h, list |-> cleanChildren]
  ELSE IF IsInferred(h, children[i])
  THEN CleanChildrenUnwrapped(h, children, i + 1,
                              cleanChildren \o GetChildren(h, children[i]))
  ELSE CleanChildrenUnwrapped(h, children, i + 1, Append(cleanChildren, children[i]))

\* the loop of createNode's fixed-arity branch from index i (from 1) on: it
\* ends at the first child that is not there; an inferred child gives way to
\* a new mrow with its children and a copy of its attributes
RECURSIVE CleanChildren(_, _, _, _)
CleanChildren(h, children, i, cleanChildren) ==
  IF i > Len(children) \/ children[i] = Absent
  THEN [heap |-> h, list |-> cleanChildren]
  ELSE IF IsInferred(h, children[i])
  THEN With(FactoryCreate(h, "mrow"), LAMBDA h1 :
       With(SetChildren(h1, Newest(h1), GetChildren(h1, children[i])), LAMBDA h2 :
       With(CopyAttributes(h2, children[i], Newest(h1)), LAMBDA h3 :
         CleanChildren(h3, children, i + 1, Append(cleanChildren, Newest(h1))))))
  ELSE CleanChildren(h, children, i + 1, Append(cleanChildren, children[i]))

\* createNode(kind, children, def, text): the heap afterwards and the node
CreateNode(h, kind, children, def, text) ==
  LET arity == Arity(kind) IN
  With(FactoryCreate(h, kind), LAMBDA h1 :
  With(Newest(h1), LAMBDA node :
  With(IF arity = Infinity \/ arity = -1
       THEN IF Len(children) = 1 /\ IsInferred(h1, children[1])
            THEN SetChildren(h1, node, GetChildren(h1, children[1]))
            ELSE SetChildren(h1, node, children)
       ELSE With(CleanChildren(h1, children, 1, <<>>),
                 LAMBDA c : SetChildren(c.heap, node, c.list)), LAMBDA h2 :
  With(IF text # Absent THEN AppendChild(h2, node, text) ELSE h2, LAMBDA h3 :
    [heap |-> SetProperties(h3, node, def), node |-> node]))))

\* createText(text): no node for a null text
CreateText(h, text) ==
  IF text = Null THEN [heap |-> h, node |-> Absent]
  ELSE With(FactoryCreate(h, "text"), LAMBDA h1 :
         [heap |-> [h1 EXCEPT !.text[Newest(h1)] = text], node |-> Newest(h1)])

\* appendChildren(node, children)
AppendChildren(h, node, children) == AppendAll(h, node, children)

\* children[position] = child of a JavaScript array: slots past the end
\* that are skipped stay holes
ArraySet(children, position, child) ==
  [i \in 1..(IF position + 1 > Len(children) THEN position + 1 ELSE Len(children)) |->
     IF i = position + 1 THEN child
     ELSE IF i <= Len(children) THEN children[i] ELSE Absent]

\* setData as it would be without the update of the child's parent
SetDataNoParent(h, node, position, child) ==
  [h EXCEPT !.childNodes[node] = ArraySet(@, position, child)]

\* setData(node, position, child)
SetData(h, node, position, child) ==
  With([h EXCEPT !.childNodes[node] = ArraySet(@, position, child)], LAMBDA h1 :
    IF child # Absent THEN [h1 EXCEPT !.parent[child] = node] ELSE h1)

\* copyChildren(oldNode, newNode), from index i (from 0) on
RECURSIVE CopyChildrenFrom(_, _, _, _)
CopyChildrenFrom(h, oldNode, newNode, i) ==
  IF i >= Len(h.childNodes[oldNode]) THEN h
  ELSE With(SetData(h, newNode, i, ChildAt(h.childNodes[oldNode], i)),
            LAMBDA h1 : CopyChildrenFrom(h1, oldNode, newNode, i + 1))

CopyChildren(h, oldNode, newNode) == CopyChildrenFrom(h, oldNode, newNode, 0)

\* the child slots of MmlMsubsup (base, sub, sup) and MmlMunderover (base, under, over)
base == 0
sub == 1
sup == 2
under == 1
over == 2

\* the test as it would be if it looked at the sub and under slots only
MalformedFirstSlotOnly(h, n) ==
  LET children == h.childNodes[n]
  IN \/ IsType(h, n, "msubsup") /\ ChildAt(children, sub) = Absent
     \/ IsType(h, n, "munderover") /\ ChildAt(children, under) = Absent

\* the test of cleanSubSup's walk: a two-slot scripted node with a slot empty
Malformed(h, n) ==
  LET children == h.childNodes[n]
  IN \/ IsType(h, n, "msubsup") /\ (ChildAt(children, sub) = Absent \/
                                    ChildAt(children, sup) = Absent)
     \/ IsType(h, n, "munderover") /\ (ChildAt(children, under) = Absent \/
                                       ChildAt(children, over) = Absent)

RECURSIVE Reverse(_)
Reverse(s) == IF s = <<>> THEN <<>> ELSE Append(Reverse(Tail(s)), Head(s))

\* the list the walk leaves in rewrite: each node found is put in front
Rewrite(h, node) == Reverse(SelectSeq(WalkTree(h, node), LAMBDA n : Malformed(h, n)))

\* the single-slot node cleanSubSup builds for n: the heap afterwards and the node
NewNode(h, n) ==
  LET children == h.childNodes[n]
  IN IF IsType(h, n, "msubsup")
     THEN IF ChildAt(children, sub) # Absent
          THEN CreateNode(h, "msub", <<ChildAt(children, base), ChildAt(children, sub)>>,
                          <<>>, Absent)
          ELSE CreateNode(h, "msup", <<ChildAt(children, base), ChildAt(children, sup)>>,
                          <<>>, Absent)
     ELSE IF ChildAt(children, under) # Absent
          THEN CreateNode(h, "munder", <<ChildAt(children, base), ChildAt(children, under)>>,
                          <<>>, Absent)
          ELSE CreateNode(h, "mover", <<ChildAt(children, base), ChildAt(children, over)>>,
                          <<>>, Absent)

\* one round of cleanSubSup's second loop, for the collected node n; node is
\* the root as it stands
RewriteOne(h, node, n) ==
  LET parent == h.parent[n] IN
  With(NewNode(h, n), LAMBDA r :
  With(CopyAttributes(r.heap, n, r.node), LAMBDA h1 :
    IF parent # Absent
    THEN [heap |-> ReplaceChild(h1, parent, r.node, n), node |-> node]
    ELSE [heap |-> h1, node |-> r.node]))

\* the second loop as it would be if it stopped after its first round
RewriteFirstOnly(h, node, rewrite) ==
  IF rewrite = <<>> THEN [heap |-> h, node |-> node]
  ELSE RewriteOne(h, node, Head(rewrite))

\* cleanSubSup's second loop over the collected nodes
RECURSIVE RewriteAll(_, _, _)
RewriteAll(h, node, rewrite) ==
  IF rewrite = <<>> THEN [heap |-> h, node |-> node]
  ELSE With(RewriteOne(h, node, Head(rewrite)),
            LAMBDA r : RewriteAll(r.heap, r.node, Tail(rewrite)))

\* cleanSubSup(node): the heap afterwards and the root returned
CleanSubSup(h, node) == RewriteAll(h, node, Rewrite(h, node))

\* MmlMo.OPTABLE[form][text]: Null when the table has no such entry
Symbol(opt, form, text) ==
  IF form \in DOMAIN opt /\ text \in DOMAIN opt[form] THEN opt[form][text] ELSE Null

\* the loop as it would be without the return inside it: the last form
\* with an entry wins
RECURSIVE TryFormsToTheEnd(_, _, _, _)
TryFormsToTheEnd(opt, forms, text, lookups) ==
  IF forms = <<>> THEN [symbol |-> Null, lookups |-> lookups]
  ELSE With(TryFormsToTheEnd(opt, Tail(forms), text,
                             Append(lookups, <<Head(forms), text>>)),
            LAMBDA rest :
              IF rest.symbol # Null \/ Symbol(opt, Head(forms), text) = Null THEN rest
              ELSE [symbol |-> Symbol(opt, Head(forms), text), lookups |-> rest.lookups])

\* the loop of getForm over the forms still to try; lookups lists the
\* <<form, text>> pairs read from the table so far
RECURSIVE TryForms(_, _, _, _)
TryForms(opt, forms, text, lookups) ==
  IF forms = <<>> THEN [symbol |-> Null, lookups |-> lookups]
  ELSE LET symbol == Symbol(opt, Head(forms), text)
           read == Append(lookups, <<Head(forms), text>>)
       IN IF symbol # Null THEN [symbol |-> symbol, lookups |-> read]
          ELSE TryForms(opt, Tail(forms), text, read)

\* getForm(node): the operator definition returned and the table reads made
GetForm(h, opt, node) ==
  IF ~IsType(h, node, "mo") THEN [symbol |-> Null, lookups |-> <<>>]
  ELSE TryForms(opt, h.forms[node], TextOf(h, h.childNodes[node]), <<>>)

-----------------------------------------------------------------------------
(* The calls a client makes.  call records the last one. *)

NoCall ==
  [seq |-> 0, op |-> "none", node |-> Absent, other |-> Absent, kind |-> "",
   children |-> <<>>, def |-> <<>>, text |-> Absent, position |-> 0,
   name |-> "", value |-> Null, result |-> Absent, symbol |-> Null,
   lookups |-> <<>>]

\* the values a metadata entry takes
Values == {"v1", "v2"}

\* the keys a metadata bag draws from: one for each branch of setProperties
Names == {"texClass", "movablelimits", "inferred", "autoOP", "foo"}

\* the most entries a metadata bag holds
MaxBag == 2

\* the lists of at most MaxBag different names
NameLists ==
  UNION {{s \in [1..n -> Names] : \A i, j \in 1..n : i # j => s[i] # s[j]} : n \in 0..MaxBag}

\* the metadata bags: each a list of <<name, value>> entries
Bags == {[i \in 1..Len(s) |-> <<s[i], v>>] : s \in NameLists, v \in Values}

\* a bag with every name in it
FullBag(v) == Entries([k \in Names |-> v])

-----------------------------------------------------------------------------
(* SpecForm: one node, one operator table, and calls of getForm on it *)

Forms == {"infix", "prefix", "postfix"}

\* the texts an operator node holds, as lists of characters
Texts == {<<"+">>, <<"-">>}

\* the kinds of the node getForm is asked about
FormKinds == {"mo", "mi"}

\* the orders in which a node offers its forms
FormOrders ==
  UNION {{s \in [1..n -> Forms] : \A i, j \in 1..n : i # j => s[i] # s[j]} : n \in 1..3}

\* the table with an entry for exactly the <<form, text>> pairs of present
TableOf(present) ==
  [f \in Forms |-> [t \in {t \in Texts : <<f, t>> \in present} |-> <<"def", f, t>>]]

InitForm ==
  \E kind \in FormKinds, text \in Texts, forms \in FormOrders,
     present \in SUBSET (Forms \X Texts) :
    LET t == CreateText(EmptyHeap, text)
        n == CreateNode(t.heap, kind, <<>>, <<>>, t.node)
    IN /\ heap = [n.heap EXCEPT !.forms[n.node] = IF kind = "mo" THEN forms ELSE <<>>]
       /\ root = n.node
       /\ optable = TableOf(present)
       /\ call = NoCall
       /\ pre = heap

\* getForm(root), any number of times
GetFormCall ==
  /\ \E r \in {GetForm(heap, optable, root)} :
        call' = [NoCall EXCEPT !.seq = 1, !.op = "getForm", !.node = root,
                               !.symbol = r.symbol, !.lookups = r.lookups]
  /\ pre' = heap
  /\ UNCHANGED <<heap, optable, root>>

NextForm == GetFormCall

SpecForm == InitForm /\ [][NextForm]_vars

-----------------------------------------------------------------------------
(* SpecProps: two nodes; the client may copy the attributes of one to the  *)
(* other, and then calls setProperties or setAttribute on one of them      *)

\* the kinds of the two nodes
PropKinds == {"mo", "mstyle", "mfrac"}

\* the names setAttribute is called with
AttrNames == {"movablelimits", "foo"}

InitProps ==
  \E k1 \in PropKinds, k2 \in PropKinds, def \in {<<>>, FullBag("v1")} :
    LET n1 == CreateNode(EmptyHeap, k1, <<>>, def, Absent)
        n2 == CreateNode(n1.heap, k2, <<>>, <<>>, Absent)
    IN /\ heap = n2.heap
       /\ root = Absent
       /\ optable = TableOf({})
       /\ call = NoCall
       /\ pre = heap

SetPropertiesCall ==
  /\ call.op \in {"none", "copyAttributes"}
  /\ \E node \in Nodes(heap), properties \in Bags :
       /\ heap' = SetProperties(heap, node, properties)
       /\ call' = [NoCall EXCEPT !.seq = call.seq + 1, !.op = "setProperties",
                                 !.node = node, !.def = properties]
  /\ pre' = heap
  /\ UNCHANGED <<optable, root>>

SetAttributeCall ==
  /\ call.op \in {"none", "copyAttributes"}
  /\ \E node \in Nodes(heap), attribute \in AttrNames, value \in Values :
       /\ heap' = SetAttribute(heap, node, attribute, value)
       /\ call' = [NoCall EXCEPT !.seq = call.seq + 1, !.op = "setAttribute",
                                 !.node = node, !.name = attribute, !.value = value]
  /\ pre' = heap
  /\ UNCHANGED <<optable, root>>

CopyAttributesCall ==
  /\ call.op = "none"
  /\ \E oldNode \in Nodes(heap), newNode \in Nodes(heap) :
       /\ oldNode # newNode
       /\ heap' = CopyAttributes(heap, oldNode, newNode)
       /\ call' = [NoCall EXCEPT !.seq = call.seq + 1, !.op = "copyAttributes",
                                 !.node = oldNode, !.other = newNode]
  /\ pre' = heap
  /\ UNCHANGED <<optable, root>>

NextProps == SetPropertiesCall \/ SetAttributeCall \/ CopyAttributesCall

SpecProps == InitProps /\ [][NextProps]_vars

-----------------------------------------------------------------------------
(* Properties of setProperties, copyAttributes and getForm *)

\* the bag of the last call as a map
BagMap(def) == [k \in {def[i][1] : i \in 1..Len(def)} |->
                  (CHOOSE e \in {def[i] : i \in 1..Len(def)} : e[1] = k)[2]]

\* where the keys of a bag belong
PropertyKeys(bag) == (DOMAIN bag) \cap (attrs \cup {"movablelimits"})
AttributeKeys(bag, kind) ==
  ((DOMAIN bag) \ (attrs \cup {"texClass", "movablelimits", "inferred"}))
    \cup (IF kind \in {"mo", "mstyle"} THEN (DOMAIN bag) \cap {"movablelimits"} ELSE {})

\* m with the entries of bag for the keys of keys laid over it
Overlay(m, bag, keys) ==
  [k \in (DOMAIN m) \cup keys |-> IF k \in keys THEN bag[k] ELSE m[k]]

\* C8: setProperties sends every key of the bag to its destination and
\* nowhere else: texClass to the texClass field, the names of attrs and
\* movablelimits to the typed properties, movablelimits also to the generic
\* attributes when the node is an mo or mstyle, inferred nowhere, any other
\* key to the generic attributes; nothing else of the heap changes, and the
\* same bag applied again changes nothing
C8_PropertyRouting ==
  call.op = "setProperties" =>
    LET node == call.node
        bag == BagMap(call.def)
        obj == pre.attributes[node]
    IN /\ heap.texClass =
            [pre.texClass EXCEPT ![node] = IF "texClass" \in DOMAIN bag
                                           THEN bag["texClass"] ELSE @]
       /\ heap.properties =
            [pre.properties EXCEPT ![node] = Overlay(@, bag, PropertyKeys(bag))]
       /\ heap.amap =
            [pre.amap EXCEPT ![obj] = Overlay(@, bag, AttributeKeys(bag, pre.kind[node]))]
       /\ heap.kind = pre.kind /\ heap.childNodes = pre.childNodes
       /\ heap.parent = pre.parent /\ heap.attributes = pre.attributes
       /\ heap.text = pre.text /\ heap.forms = pre.forms
       /\ SetProperties(heap, node, call.def) = heap

\* a call with movablelimits and an unlisted key on an mfrac that had no
\* generic attribute: the property is set, the unlisted key is the only attribute
C8_Witness ==
  /\ call.op = "setProperties"
  /\ heap.kind[call.node] = "mfrac"
  /\ {call.def[i][1] : i \in 1..Len(call.def)} = {"movablelimits", "foo"}
  /\ pre.amap[pre.attributes[call.node]] = EmptyMap
  /\ "movablelimits" \notin DOMAIN pre.properties[call.node]
  /\ "movablelimits" \in DOMAIN heap.properties[call.node]
  /\ DOMAIN heap.amap[heap.attributes[call.node]] = {"foo"}

\* the node's text, and the places of its form list that the table has an entry for
NodeText(h, node) == TextOf(h, h.childNodes[node])
Matching(h, opt, node) ==
  {i \in 1..Len(h.forms[node]) : NodeText(h, node) \in DOMAIN opt[h.forms[node][i]]}

\* C9: for an mo, getForm returns the table's entry for the first form of
\* the node's list that has one for the node's text, reading the table for
\* the forms up to that one only, and null when no form has one; for any
\* other kind it returns null and reads nothing; the heap and the table stay
\* as they were
C9_FirstMatchingForm ==
  call.op = "getForm" =>
    LET node == call.node
        hits == Matching(heap, optable, node)
        first == CHOOSE i \in hits : \A j \in hits : i <= j
    IN /\ heap = pre
       /\ IF heap.kind[node] # "mo"
          THEN call.symbol = Null /\ call.lookups = <<>>
          ELSE IF hits = {}
          THEN /\ call.symbol = Null
               /\ Len(call.lookups) = Len(heap.forms[node])
          ELSE /\ call.symbol = optable[heap.forms[node][first]][NodeText(heap, node)]
               /\ call.lookups = [i \in 1..first |-> <<heap.forms[node][i], NodeText(heap, node)>>]

\* an mo whose first form has no entry while its second and third have one
C9_Witness ==
  /\ call.op = "getForm"
  /\ heap.kind[call.node] = "mo"
  /\ Matching(heap, optable, call.node) = {2, 3}
  /\ call.symbol = <<"def", heap.forms[call.node][2], NodeText(heap, call.node)>>

\* the generic attributes, typed properties and texClass of a node
Metadata(h, node) ==
  [attributes |-> h.amap[h.attributes[node]], properties |-> h.properties[node],
   texClass |-> h.texClass[node]]

\* C10: copyAttributes(oldNode, newNode) leaves oldNode's generic
\* attributes, typed properties and texClass as they were, and a later
\* setAttribute or setProperties on a node changes no generic attribute of
\* another node
C10_CopyLeavesOldNode ==
  /\ call.op = "copyAttributes" => Metadata(heap, call.node) = Metadata(pre, call.node)
  /\ call.op \in {"setAttribute", "setProperties"} =>
       \A n \in Nodes(heap) \ {call.node} :
         heap.amap[heap.attributes[n]] = pre.amap[pre.attributes[n]]

-----------------------------------------------------------------------------
(* SpecCreate: a pool of nodes (an mi, an inferred mrow over up to two     *)
(* more mi, a text leaf) and a call of createNode with children drawn from *)
(* the pool                                                                *)

\* the kinds createNode is asked for: fixed arities 2 and 3, and the variadic ones
CreateKinds == {"mfrac", "msubsup", "msup", "mrow", "mstyle"}

\* the most children createNode is called with
MaxArgs == 3

\* the most children the pool's inferred mrow holds
MaxInferred == 2

Variadic(kind) == Arity(kind) = Infinity \/ Arity(kind) = -1

RECURSIVE Leaves(_, _)
\* the heap with n more mi nodes, and their ids
Leaves(h, n) ==
  IF n = 0 THEN [heap |-> h, list |-> <<>>]
  ELSE With(Leaves(h, n - 1), LAMBDA r :
       With(CreateNode(r.heap, "mi", <<>>, <<>>, Absent), LAMBDA c :
         [heap |-> c.heap, list |-> Append(r.list, c.node)]))

InitCreate ==
  \E n \in 0..MaxInferred, def \in {<<>>, FullBag("v1")} :
    LET a == CreateNode(EmptyHeap, "mi", <<>>, <<>>, Absent)
        t == CreateText(a.heap, <<"+">>)
        l == Leaves(t.heap, n)
        g == CreateNode(l.heap, "inferredMrow", l.list, def, Absent)
    IN /\ heap = g.heap
       /\ root = g.node
       /\ optable = TableOf({})
       /\ call = NoCall
       /\ pre = heap

\* the nodes that can be handed to createNode as children, and the text leaves
Parentless(h) == {n \in Nodes(h) : h.parent[n] = Absent /\ h.kind[n] # "text"}
TextLeaves(h) == {n \in Nodes(h) : h.kind[n] = "text"}

\* one call of createNode
CreateNodeCall ==
  /\ call.op = "none"
  /\ \E kind \in CreateKinds, n \in 0..MaxArgs, def \in {<<>>, FullBag("v2")},
        text \in TextLeaves(heap) \cup {Absent} :
       \E children \in [1..n -> Parentless(heap) \cup {Absent}] :
         \* setChildren is never handed an entry that is not there
         /\ Variadic(kind) => \A i \in 1..n : children[i] # Absent
         /\ \E r \in {CreateNode(heap, kind, children, def, text)} :
               /\ heap' = r.heap
               /\ call' = [NoCall EXCEPT !.seq = call.seq + 1, !.op = "createNode",
                                         !.kind = kind, !.children = children,
                                         !.def = def, !.text = text, !.result = r.node]
  /\ pre' = heap
  /\ UNCHANGED <<optable, root>>

NextCreate == CreateNodeCall

SpecCreate == InitCreate /\ [][NextCreate]_vars

\* the number of entries of children before the first one that is not there
Supplied(children) ==
  LET gaps == {i \in 1..Len(children) : children[i] = Absent}
  IN IF gaps = {} THEN Len(children) ELSE (CHOOSE i \in gaps : \A j \in gaps : i <= j) - 1

FixedCall == call.op = "createNode" /\ ~Variadic(call.kind)

\* C1 as claimed: the node createNode returns for a kind of fixed arity has
\* no more children than the arity of its kind
C1_ArityRespected ==
  FixedCall => Len(heap.childNodes[call.result]) <= Arity(call.kind)

\* C1 as amended: the node createNode returns for a kind of fixed arity has
\* as many children as were supplied before the first absent entry, and one
\* more when a text leaf is given; it stays within the arity of its kind
\* exactly when that number does
C1_ChildrenCount ==
  FixedCall =>
    LET count == Supplied(call.children) + (IF call.text # Absent THEN 1 ELSE 0)
    IN /\ Len(heap.childNodes[call.result]) = count
       /\ Len(heap.childNodes[call.result]) <= Arity(call.kind) <=> count <= Arity(call.kind)

\* an mfrac made of the mi and the inferred mrow (which holds two nodes): two children
C1_Witness ==
  /\ FixedCall /\ call.kind = "mfrac" /\ call.text = Absent
  /\ Len(call.children) = 2
  /\ \E i \in 1..2 : /\ call.children[i] # Absent
                     /\ IsInferred(pre, call.children[i])
                     /\ Len(pre.childNodes[call.children[i]]) = 2
  /\ Len(heap.childNodes[call.result]) = 2

\* C7: after createNode for a kind of fixed arity no child of the node is
\* inferred; each supplied child that is inferred has in its slot a new mrow
\* with the inferred node's children, generic attributes and typed
\* properties, and each other supplied child is in its slot itself
C7_InferredRewrapped ==
  FixedCall =>
    LET got == heap.childNodes[call.result]
    IN /\ \A i \in 1..Len(got) : got[i] # Absent => ~IsInferred(heap, got[i])
       /\ \A i \in 1..Len(call.children) :
            call.children[i] # Absent =>
              /\ i <= Len(got)
              /\ IF IsInferred(pre, call.children[i])
                 THEN /\ got[i] \notin Nodes(pre)
                      /\ heap.kind[got[i]] = "mrow"
                      /\ heap.childNodes[got[i]] = pre.childNodes[call.children[i]]
                      /\ heap.amap[heap.attributes[got[i]]] =
                           pre.amap[pre.attributes[call.children[i]]]
                      /\ heap.properties[got[i]] = pre.properties[call.children[i]]
                 ELSE got[i] = call.children[i]

-----------------------------------------------------------------------------
(* SpecRepair: a tree as the parser builds it (createNode for each node,   *)
(* setData to hang a node into a slot of its parent) and up to two runs of *)
(* cleanSubSup on it                                                       *)

\* the most nodes of the tree cleanSubSup is given
MaxTree == 4

\* the runs of cleanSubSup on the tree
MaxRepairs == 2

\* the kinds of the tree's nodes
TreeKinds == {"msubsup", "munderover", "mrow", "inferredMrow", "mi"}

\* the kinds cleanSubSup rewrites to
SingleKinds == {"msub", "msup", "munder", "mover"}

\* the slots a child is hung into
Slots == {base, sub, sup}

\* the shapes of the trees of n nodes, numbered level by level: node i > 1
\* sits in slot slot[i] of node par[i]
Shapes(n) ==
  {s \in [par : [2..n -> 1..n], slot : [2..n -> Slots]] :
     /\ \A i \in 2..n : s.par[i] < i
     /\ \A i, j \in 2..n :
          i < j => \/ s.par[i] < s.par[j]
                   \/ s.par[i] = s.par[j] /\ s.slot[i] < s.slot[j]}

\* the kinds the nodes of a tree of shape s can have: a leaf kind has no
\* children, and the children of a row fill its slots from the first on
\* (only scripted nodes have holes)
KindsFor(n, s) ==
  {k \in [1..n -> TreeKinds] :
     /\ \A i \in 2..n : k[s.par[i]] # "mi"
     /\ \A i \in 2..n :
          (Variadic(k[s.par[i]]) /\ s.slot[i] > 0) =>
            \E j \in 2..n : s.par[j] = s.par[i] /\ s.slot[j] = s.slot[i] - 1}

\* the metadata node i is created with: every kind of key, the value by the node
MetaOf(i) == FullBag(IF i % 2 = 1 THEN "v1" ELSE "v2")

RECURSIVE CreateAll(_, _, _)
\* createNode for the nodes i..n of the tree, none with children yet
CreateAll(h, t, i) ==
  IF i > Len(t.kind) THEN h
  ELSE With(CreateNode(h, t.kind[i], <<>>, MetaOf(i), Absent),
            LAMBDA c : CreateAll(c.heap, t, i + 1))

RECURSIVE HangAll(_, _, _)
\* setData for the nodes i..n of the tree
HangAll(h, t, i) ==
  IF i > Len(t.kind) THEN h
  ELSE With(SetData(h, t.par[i], t.slot[i], i), LAMBDA h1 : HangAll(h1, t, i + 1))

InitRepair ==
  \E n \in 1..MaxTree :
    \E s \in Shapes(n) :
      \E k \in KindsFor(n, s) :
        LET t == [kind |-> k, par |-> s.par, slot |-> s.slot]
        IN /\ heap = HangAll(CreateAll(EmptyHeap, t, 1), t, 2)
           /\ root = 1
           /\ optable = TableOf({})
           /\ call = NoCall
           /\ pre = heap

CleanSubSupCall ==
  /\ call.seq < MaxRepairs
  /\ \E r \in {CleanSubSup(heap, root)} :
        /\ heap' = r.heap
        /\ root' = r.node
        /\ call' = [NoCall EXCEPT !.seq = call.seq + 1, !.op = "cleanSubSup",
                                  !.node = root, !.result = r.node]
  /\ pre' = heap
  /\ UNCHANGED optable

NextRepair == CleanSubSupCall

SpecRepair == InitRepair /\ [][NextRepair]_vars

\* the nodes the last run of cleanSubSup collected
Collected == Range(Rewrite(pre, call.node))

\* the node that stands where the collected node n stood: the root
\* returned, or what the slot of n's parent holds now
Replacement(n) ==
  IF pre.parent[n] = Absent THEN call.result
  ELSE heap.childNodes[pre.parent[n]][ChildIndex(pre, pre.parent[n], n)]

\* the kind cleanSubSup is to give the node that replaces n, and the script
\* slot it goes by: the sub or under slot when that is filled, else the other
KindFor(h, n) ==
  IF h.kind[n] = "msubsup"
  THEN (IF ChildAt(h.childNodes[n], sub) # Absent THEN "msub" ELSE "msup")
  ELSE (IF ChildAt(h.childNodes[n], under) # Absent THEN "munder" ELSE "mover")
ScriptSlot(h, n) == IF ChildAt(h.childNodes[n], sub) # Absent THEN sub ELSE sup

\* got stands for the child orig: it is that node, or, for an inferred
\* orig, an mrow over orig's children (what createNode makes of one)
StandsFor(h, orig, got) ==
  IF orig = Absent THEN got = Absent
  ELSE IF IsInferred(h, orig)
  THEN got # Absent /\ h.kind[got] = "mrow" /\ h.childNodes[got] = h.childNodes[orig]
  ELSE got = orig

\* C2: the node that replaces a collected node is an msub (munder) over
\* the base and the sub (under) child when that slot is filled, else an msup
\* (mover) over the base and the sup (over) child; where the collected node
\* has a script child, the replacement's children are the base and that
\* child, in this order.  (The children are those the collected node has
\* when it is rewritten, and an mrow made of an inferred child counts as
\* that child.)
C2_ReplacementShape ==
  (call.op = "cleanSubSup" /\ call.seq = 1) =>
    \A n \in Collected :
      LET r == Replacement(n)
          children == heap.childNodes[n]
          script == ChildAt(children, ScriptSlot(heap, n))
      IN /\ heap.kind[r] = KindFor(heap, n)
         /\ script # Absent =>
              /\ Len(heap.childNodes[r]) = 2
              /\ StandsFor(heap, ChildAt(children, base), heap.childNodes[r][1])
              /\ StandsFor(heap, script, heap.childNodes[r][2])

\* a scripted node of two slots of which one is empty
SlotEmpty(h, n, i) == i > Len(h.childNodes[n]) \/ h.childNodes[n][i] = Absent
LacksScript(h, n) ==
  /\ h.kind[n] \in {"msubsup", "munderover"}
  /\ SlotEmpty(h, n, 2) \/ SlotEmpty(h, n, 3)

\* C3: after cleanSubSup no node of the tree under the root returned is an
\* msubsup or munderover with a script slot empty, and where a collected
\* node stood (in the slot of its parent, or as the root) there is an msub,
\* msup, munder or mover
C3_NoMalformedLeft ==
  call.op = "cleanSubSup" =>
    /\ root = call.result
    /\ \A n \in Under(heap, {root}, Len(heap.kind)) : ~LacksScript(heap, n)
    /\ \A n \in Under(pre, {call.node}, Len(pre.kind)) :
         LacksScript(pre, n) =>
         /\ Replacement(n) # n
         /\ heap.kind[Replacement(n)] \in SingleKinds

\* a first run on a tree whose root and a node below it are both collected
C3_Witness ==
  /\ call.op = "cleanSubSup" /\ call.seq = 1
  /\ LacksScript(pre, call.node)
  /\ \E n \in Nodes(pre) : /\ LacksScript(pre, n) /\ pre.parent[n] # Absent
                            /\ LacksScript(pre, pre.parent[n])
  /\ heap.kind[root] \in SingleKinds
  /\ \E c \in Range(heap.childNodes[root]) : c # Absent /\ heap.kind[c] \in SingleKinds

\* C4: a second run of cleanSubSup, on the tree the first run returned,
\* collects no node, returns the same root and leaves every node as it was
C4_SecondRunChangesNothing ==
  (call.op = "cleanSubSup" /\ call.seq = 2) =>
    /\ Collected = {}
    /\ call.result = call.node
    /\ heap = pre

\* a second run on a tree in which the first run rewrote a node and a
\* node below it
C4_Witness ==
  /\ call.op = "cleanSubSup" /\ call.seq = 2
  /\ \E n \in Range(WalkTree(heap, root)) :
       /\ heap.kind[n] \in SingleKinds
       /\ \E c \in Range(heap.childNodes[n]) : c # Absent /\ heap.kind[c] \in SingleKinds

\* C5: the node that replaces a collected node has the generic attributes,
\* the typed properties and the texClass of the node it replaces
C5_MetadataCopied ==
  (call.op = "cleanSubSup" /\ call.seq = 1) =>
    \A n \in Collected : Metadata(heap, Replacement(n)) = Metadata(pre, n)

-----------------------------------------------------------------------------
(* Spec: a client that starts with no node and calls createNode,           *)
(* appendChildren, setData, copyChildren and cleanSubSup in any order, on  *)
(* any nodes it has                                                        *)

\* the most nodes the heap holds
MaxNodes == 4

\* the most calls the client makes
MaxCalls == 3

\* the most children handed to one call of createNode or appendChildren
MaxChildren == 2

\* the kinds the client asks createNode for
ClientKinds == {"mrow", "msubsup", "mi"}

\* the positions setData is called with
Positions == {base, sub, sup}

Init ==
  /\ heap = EmptyHeap
  /\ root = Absent
  /\ optable = TableOf({})
  /\ call = NoCall
  /\ pre = EmptyHeap

\* walkTree from node comes to an end: no node under it is under itself
Acyclic(h, node) ==
  \A n \in Under(h, {node}, Len(h.kind)) :
    n \notin Under(h, Range(h.childNodes[n]) \ {Absent}, Len(h.kind))

CreateNodeStep ==
  /\ call.seq < MaxCalls
  /\ Len(heap.kind) < MaxNodes
  /\ \E kind \in ClientKinds, n \in 0..MaxChildren :
       \E children \in [1..n -> Nodes(heap)] :
         \E r \in {CreateNode(heap, kind, children, <<>>, Absent)} :
           /\ heap' = r.heap
           /\ call' = [NoCall EXCEPT !.seq = call.seq + 1, !.op = "createNode",
                                     !.kind = kind, !.children = children,
                                     !.result = r.node]
  /\ pre' = heap
  /\ UNCHANGED <<optable, root>>

AppendChildrenStep ==
  /\ call.seq < MaxCalls
  /\ \E node \in Nodes(heap), n \in 1..MaxChildren :
       \E children \in [1..n -> Nodes(heap)] :
         /\ heap' = AppendChildren(heap, node, children)
         /\ call' = [NoCall EXCEPT !.seq = call.seq + 1, !.op = "appendChildren",
                                   !.node = node, !.children = children]
  /\ pre' = heap
  /\ UNCHANGED <<optable, root>>

SetDataStep ==
  /\ call.seq < MaxCalls
  /\ \E node \in Nodes(heap), position \in Positions, child \in Nodes(heap) \cup {Absent} :
       /\ heap' = SetData(heap, node, position, child)
       /\ call' = [NoCall EXCEPT !.seq = call.seq + 1, !.op = "setData", !.node = node,
                                 !.position = position, !.other = child]
  /\ pre' = heap
  /\ UNCHANGED <<optable, root>>

CopyChildrenStep ==
  /\ call.seq < MaxCalls
  /\ \E oldNode \in Nodes(heap), newNode \in Nodes(heap) :
       /\ heap' = CopyChildren(heap, oldNode, newNode)
       /\ call' = [NoCall EXCEPT !.seq = call.seq + 1, !.op = "copyChildren",
                                 !.node = oldNode, !.other = newNode]
  /\ pre' = heap
  /\ UNCHANGED <<optable, root>>

CleanSubSupStep ==
  /\ call.seq < MaxCalls
  /\ \E node \in Nodes(heap) :
       \* the walk ends, and the heap has room for the nodes the call makes
       /\ Acyclic(heap, node)
       /\ Len(heap.kind) + Len(Rewrite(heap, node)) <= MaxNodes
       /\ \E r \in {CleanSubSup(heap, node)} :
            /\ heap' = r.heap
            /\ root' = r.node
            /\ call' = [NoCall EXCEPT !.seq = call.seq + 1, !.op = "cleanSubSup",
                                      !.node = node, !.result = r.node]
  /\ pre' = heap
  /\ UNCHANGED optable

Next ==
  \/ CreateNodeStep
  \/ AppendChildrenStep
  \/ SetDataStep
  \/ CopyChildrenStep
  \/ CleanSubSupStep

Spec == Init /\ [][Next]_vars

\* the nodes that hold c in a child slot
Holders(h, c) == {p \in Nodes(h) : c \in Range(h.childNodes[p])}

\* C6 as claimed: a node in a child slot of p has p as its parent, and no
\* node is in child slots of two nodes
C6_SingleOwnership ==
  \A c \in Nodes(heap) :
    /\ \A p \in Holders(heap, c) : heap.parent[c] = p
    /\ Cardinality(Holders(heap, c)) <= 1

\* C6 as amended: a call takes no node out of the slots that hold it, so a
\* node can be in the slots of several nodes; but whenever a call puts a
\* node into a slot of a node that did not hold it, the node's parent is,
\* after the call, one of the nodes that newly hold it
C6_ParentFollowsAssignment ==
  [][\A c \in Nodes(heap') :
       LET newly == Holders(heap', c) \ Holders(heap, c)
       IN newly # {} => heap'.parent[c] \in newly]_vars

\* copyChildren has put a node that oldNode holds into newNode as well: it
\* is in the slots of both, and its parent is newNode
C6_Witness ==
  /\ call.op = "copyChildren" /\ call.node # call.other
  /\ \E c \in Nodes(heap) :
       /\ {call.node, call.other} \subseteq Holders(heap, c)
       /\ call.other \notin Holders(pre, c)
       /\ heap.parent[c] = call.other

====
